---- MODULE Spec2Model ----
(***************************************************************************)
(* KDDockWidgets: the Layout coordinator (src/src/core/Layout.cpp), which  *)
(* owns one ItemContainer tree, keeps it synchronised with the geometry of *)
(* a host view, persists it, and broadcasts close events to its groups.    *)
(*                                                                         *)
(* Layout's methods are translated from Layout.cpp.  The classes Layout    *)
(* calls into (Item, ItemContainer, Group, the host view) are not part of  *)
(* the sources at hand; their operations are modelled from the design      *)
(* document and are marked "design document" where they are defined.       *)
(***************************************************************************)
EXTENDS Integers, Sequences, FiniteSets, TLC

(***************************************************************************)
(* Bounds of the model.                                                    *)
(***************************************************************************)
\* a size handed to the layout has width + height <= MaxExtent
MaxExtent == 3
\* a tree has at most MaxLeaves leaf items
MaxLeaves == 3
\* a group holds at most MaxTabs dock widgets
MaxTabs == 3
\* the root items handed to a Layout in a run, the first one included
MaxRoots == 3
\* the ancestors of the host view
MaxAncestors == 3
\* the callbacks an Item wrapper holds at a time
MaxRegistered == 2

VARIABLES
    m_rootItem,          \* Layout::m_rootItem: the root ItemContainer
    groupContent,        \* the Group bound to each hosting leaf: its tabs
    viewSize,            \* size of the Layout's host view, view()->size()
    m_inResizeEvent,     \* Layout::m_inResizeEvent, the re-entrancy guard
    restoreInProgress,   \* LayoutSaver::restoreInProgress(), process wide
    m_viewDeleted,       \* Layout::m_viewDeleted
    heap,                \* the root items handed to the Layout, and the
                         \* lives of the Layout and of its host view
    last                 \* the last Layout call: its arguments, result, trace

vars == <<m_rootItem, groupContent, viewSize, m_inResizeEvent,
          restoreInProgress, m_viewDeleted, heap, last>>

\* what the sizing and the tree operations leave alone
lifeVars == <<m_viewDeleted, heap>>

(***************************************************************************)
(* QSize                                                                   *)
(***************************************************************************)
Dims == 1..MaxExtent
Sizes == {sz \in Dims \X Dims : sz[1] + sz[2] <= MaxExtent}

Max2(a, b) == IF a >= b THEN a ELSE b

\* QSize::expandedTo: the maximum in each dimension
expandedTo(a, b) == <<Max2(a[1], b[1]), Max2(a[2], b[2])>>

\* a is at least b in width and in height
AtLeast(a, b) == a[1] >= b[1] /\ a[2] >= b[2]

(***************************************************************************)
(* Items.  A leaf hosts a guest (a Group, named by its view id) or is a    *)
(* placeholder (guest NoGroup).  A container holds an ordered sequence of  *)
(* children.  The root container also carries its size and minimum size.   *)
(***************************************************************************)
NoGroup == 0
GroupIds == 1..MaxLeaves

Leaf(i, g) == [isContainer |-> FALSE, id |-> i, guest |-> g]
Container(i, kids) == [isContainer |-> TRUE, id |-> i, children |-> kids]
Root(kids, sz, minSz) ==
    [isContainer |-> TRUE, id |-> 0, children |-> kids, size |-> sz, minSize |-> minSz]

RECURSIVE ConcatAll(_)
ConcatAll(ss) == IF ss = <<>> THEN <<>> ELSE Head(ss) \o ConcatAll(Tail(ss))

RECURSIVE SumSeq(_)
SumSeq(ns) == IF ns = <<>> THEN 0 ELSE Head(ns) + SumSeq(Tail(ns))

Range(s) == {s[i] : i \in DOMAIN s}

\* ItemContainer::items_recursive (design document: "recursive item
\* enumeration"): the leaf items of the subtree, depth first, in child order
RECURSIVE items_recursive(_)
items_recursive(item) ==
    IF item.isContainer
    THEN ConcatAll([i \in DOMAIN item.children |-> items_recursive(item.children[i])])
    ELSE <<item>>

\* Item::isContainer
isContainer(item) == item.isContainer

\* Item::asGroupController: the Group hosted by the item, null (NoGroup)
\* for a container and for a placeholder
asGroupController(item) == IF item.isContainer THEN NoGroup ELSE item.guest

\* Item::isPlaceholder
isPlaceholder(item) == ~item.isContainer /\ item.guest = NoGroup

\* Layout::groups
RECURSIVE groupsOf(_)
groupsOf(items) ==
    IF items = <<>> THEN <<>>
    ELSE LET group == asGroupController(Head(items))
         IN  (IF group # NoGroup THEN <<group>> ELSE <<>>) \o groupsOf(Tail(items))

groups(root) == groupsOf(items_recursive(root))

\* a null Item pointer
nullptr == [isContainer |-> FALSE, id |-> -1, guest |-> NoGroup]

(***************************************************************************)
(* The binding wrapper of Item.  Each overridable method has a callback    *)
(* slot in the wrapper, named here by the method; a slot holds a function  *)
(* pointer or null.  What a call runs is written down as the sequence of   *)
(* the implementations it ran.                                             *)
(***************************************************************************)
\* the method ids of the switch of registerVirtualMethodCallback
methodId ==
    [checkSanity |-> 760, dumpLayout |-> 767, isVisible |-> 784, maxSizeHint |-> 793,
     minSize |-> 794, setGeometry_recursive |-> 811, setHostView |-> 813,
     setIsVisible |-> 814, updateWidgetGeometries |-> 828, visibleCount_recursive |-> 829]

Methods == DOMAIN methodId

NullCallback == "nullptr"

CallbackPointers == {NullCallback, "f", "g"}

\* the slots of a new wrapper
NoCallbacks == [m \in Methods |-> NullCallback]

\* the switch without the break of its first case
registerVirtualMethodCallback_fallsThrough(slots, callback, id) ==
    CASE id = 760 -> [slots EXCEPT !.checkSanity = callback, !.dumpLayout = callback]
      [] id = 767 -> [slots EXCEPT !.dumpLayout = callback]
      [] id = 784 -> [slots EXCEPT !.isVisible = callback]
      [] id = 793 -> [slots EXCEPT !.maxSizeHint = callback]
      [] id = 794 -> [slots EXCEPT !.minSize = callback]
      [] id = 811 -> [slots EXCEPT !.setGeometry_recursive = callback]
      [] id = 813 -> [slots EXCEPT !.setHostView = callback]
      [] id = 814 -> [slots EXCEPT !.setIsVisible = callback]
      [] id = 828 -> [slots EXCEPT !.updateWidgetGeometries = callback]
      [] id = 829 -> [slots EXCEPT !.visibleCount_recursive = callback]
      [] OTHER -> slots

\* c_KDDockWidgets__Core__Item__registerVirtualMethodCallback
registerVirtualMethodCallback(slots, callback, id) ==
    CASE id = 760 -> [slots EXCEPT !.checkSanity = callback]
      [] id = 767 -> [slots EXCEPT !.dumpLayout = callback]
      [] id = 784 -> [slots EXCEPT !.isVisible = callback]
      [] id = 793 -> [slots EXCEPT !.maxSizeHint = callback]
      [] id = 794 -> [slots EXCEPT !.minSize = callback]
      [] id = 811 -> [slots EXCEPT !.setGeometry_recursive = callback]
      [] id = 813 -> [slots EXCEPT !.setHostView = callback]
      [] id = 814 -> [slots EXCEPT !.setIsVisible = callback]
      [] id = 828 -> [slots EXCEPT !.updateWidgetGeometries = callback]
      [] id = 829 -> [slots EXCEPT !.visibleCount_recursive = callback]
      [] OTHER -> slots

\* an implementation that ran: Item's own, or a callback
Ran(method, callback) == [method |-> method, callback |-> callback]

\* Item_wrapper::<method>_nocallback: Item's implementation
nocallback(method) == <<Ran(method, NullCallback)>>

\* the C entry point c_KDDockWidgets__Core__Item__<method> on a wrapper
c_KDDockWidgets__Core__Item(slots, method) == nocallback(method)

\* Item_wrapper::<method>, the override of Item's virtual method; a callback
\* may call the C entry point of the method (reenters)
Item_wrapper(slots, method, reenters) ==
    IF slots[method] # NullCallback
    THEN <<Ran(method, slots[method])>>
         \o (IF reenters THEN c_KDDockWidgets__Core__Item(slots, method) ELSE <<>>)
    ELSE <<Ran(method, NullCallback)>>

(***************************************************************************)
(* The root items handed to the Layout (setRootItem takes ownership), each *)
(* named by the id of the root (the roots are numbered from 0 in the order *)
(* they are created): how often it was deleted, the view hosting it, and   *)
(* whether it was used after it was deleted.  The Layout and its host view *)
(* are destroyed separately, in either order.  With them: the host view's  *)
(* minimum size, the root whose minSizeChanged signal is connected through *)
(* m_minSizeChangedHandler (NoRoot for none), and the roots whose          *)
(* numVisibleItemsChanged signal is connected to the Layout.               *)
(***************************************************************************)
\* the Layout's own view, Controller::view()
LayoutView == "view"

NoRoot == -1

EmptyHeap ==
    [deletes |-> <<>>, hostView |-> <<>>, usedAfterDelete |-> {},
     layoutDestroyed |-> FALSE, viewDestroyed |-> FALSE, crashed |-> FALSE,
     viewMinimumSize |-> <<0, 0>>, minSizeChanged |-> NoRoot, numVisibleItemsChanged |-> {},
     callbacks |-> NoCallbacks]

\* the roots handed to the Layout so far
Handed(h) == DOMAIN h.deletes

\* a root item created for the view v comes under the Layout's care
Hand(h, root, v) ==
    [h EXCEPT !.deletes = (root.id :> 0) @@ @, !.hostView = (root.id :> v) @@ @]

\* setRootItem connecting numVisibleItemsChanged only
connect_keepsHandler(h, root) ==
    [h EXCEPT !.numVisibleItemsChanged = @ \cup {root.id}]

\* setRootItem, lines 103-107: the root's numVisibleItemsChanged is connected
\* to a lambda of the Layout, and its minSizeChanged through
\* m_minSizeChangedHandler, whose earlier connection is let go
connect(h, root) ==
    [h EXCEPT !.numVisibleItemsChanged = @ \cup {root.id}, !.minSizeChanged = root.id]

\* the heap of a Layout that was handed its first root, created for its view
OwnRootHeap == connect(Hand(EmptyHeap, [id |-> 0], LayoutView), [id |-> 0])

\* delete item; deleting a null pointer does nothing
delete(h, item) ==
    IF item = nullptr THEN h ELSE [h EXCEPT !.deletes[item.id] = @ + 1]

\* item-> : a member of the root item is read or called
deref(h, item) ==
    IF item = nullptr THEN [h EXCEPT !.crashed = TRUE]
    ELSE IF h.deletes[item.id] > 0
         THEN [h EXCEPT !.usedAfterDelete = @ \cup {item.id}]
         ELSE h

\* the n-th root item handed to the Layout: the first one is the root 0 of
\* the trees below, the later ones are numbered after the items of a tree
RootId(n) == IF n = 0 THEN 0 ELSE 2 * MaxLeaves + n

\* Item::hostView of a root item; the member of a deleted item is garbage
hostView(h, item) ==
    IF h.deletes[item.id] > 0 THEN "garbage" ELSE h.hostView[item.id]

\* Controller::view(): the Layout's view, null once the view is destroyed
view(o) == IF o.heap.viewDestroyed THEN "null" ELSE LayoutView

\* setRootItem forgetting to take the new root
setRootItem_keepsOldRoot(o, root) ==
    [o EXCEPT !.heap = deref(delete(@, o.root), root)]

\* Layout::setRootItem on o = [root, heap, viewDeleted]: the old root is
\* deleted, the new one is taken and its signals are connected
setRootItem(o, root) ==
    [o EXCEPT !.heap = connect(deref(delete(@, o.root), root), root), !.root = root]

\* the lambda connected to the root's minSizeChanged (line 107):
\* view()->setMinimumSize(layoutMinimumSize())
onMinSizeChanged(o) ==
    [o EXCEPT !.heap.viewMinimumSize = o.root.minSize,
              !.log = Append(@, [signal |-> "setMinimumSize", arg |-> o.root.minSize])]

\* the lambda connected to the root's numVisibleItemsChanged (line 104):
\* visibleWidgetCountChanged.emit(count)
onNumVisibleItemsChanged(o, n) ==
    [o EXCEPT !.log = Append(@, [signal |-> "visibleWidgetCountChanged", arg |-> n])]

\* the current root emits minSizeChanged: the connected handler runs
minSizeChanged(o) ==
    IF o.heap.minSizeChanged = o.root.id THEN onMinSizeChanged(o) ELSE o

\* the current root emits numVisibleItemsChanged(n)
numVisibleItemsChanged(o, n) ==
    IF o.root.id \in o.heap.numVisibleItemsChanged THEN onNumVisibleItemsChanged(o, n) ELSE o

\* Layout::viewAboutToBeDeleted
viewAboutToBeDeleted(o) ==
    IF view(o) # "null"
    THEN LET read == [o EXCEPT !.heap = deref(@, o.root)]
             o1 == IF o.root # nullptr /\ view(o) = hostView(o.heap, o.root)
                   THEN [read EXCEPT !.heap = delete(@, o.root), !.root = nullptr]
                   ELSE read
         IN  [o1 EXCEPT !.viewDeleted = TRUE]
    ELSE o

\* Layout::~Layout
destroyLayout(o) ==
    LET o0 == [o EXCEPT !.heap.minSizeChanged = NoRoot]
        o1 == IF o0.root # nullptr /\ ~o0.viewDeleted THEN viewAboutToBeDeleted(o0) ELSE o0
    IN  [o1 EXCEPT !.heap.layoutDestroyed = TRUE]

\* View::freed(): the view is destroyed by its controller, the Layout
freed(o) == o.heap.layoutDestroyed

\* DropArea::~DropArea
destroyDropArea(o) ==
    LET o1 == IF ~freed(o) THEN viewAboutToBeDeleted(o) ELSE o
    IN  [o1 EXCEPT !.heap.viewDestroyed = TRUE]

(***************************************************************************)
(* The layouts a run starts from and the layouts a persisted record is     *)
(* taken from: every tree of at most MaxLeaves leaves whose root children  *)
(* are leaves ("L") or nested containers of two leaves ("C").              *)
(***************************************************************************)
LeavesOf(kind) == IF kind = "L" THEN 1 ELSE 2
NodesOf(kind) == IF kind = "L" THEN 1 ELSE 3

LeafCount(shape) == SumSeq([i \in DOMAIN shape |-> LeavesOf(shape[i])])

Shapes ==
    {sh \in UNION {[1..n -> {"L", "C"}] : n \in 0..MaxLeaves} : LeafCount(sh) <= MaxLeaves}

\* the children of the root for a shape; the k-th leaf in enumeration order
\* hosts the group guestOf[k]
BuildChildren(shape, guestOf) ==
    [i \in DOMAIN shape |->
        LET before == SubSeq(shape, 1, i - 1)
            lf == SumSeq([j \in DOMAIN before |-> LeavesOf(before[j])])
            nd == 1 + SumSeq([j \in DOMAIN before |-> NodesOf(before[j])])
        IN  IF shape[i] = "L"
            THEN Leaf(nd, guestOf[lf + 1])
            ELSE Container(nd, <<Leaf(nd + 1, guestOf[lf + 1]),
                                 Leaf(nd + 2, guestOf[lf + 2])>>)]

\* guests of the leaves: each leaf is a placeholder or hosts its own group
GuestMaps(n) ==
    {[k \in 1..n |-> IF k \in ph THEN NoGroup ELSE k] : ph \in SUBSET (1..n)}

TreeChildren ==
    UNION {{BuildChildren(sh, gm) : gm \in GuestMaps(LeafCount(sh))} : sh \in Shapes}

DockWidgetsOf(g, n) == [t \in 1..n |-> <<g, t>>]

\* every group of a freshly built layout holds n tabs, the idx-th current
Contents(kids, n, idx) ==
    [g \in Range(groupsOf(items_recursive(Container(0, kids)))) |->
        [dockWidgets |-> DockWidgetsOf(g, n), currentTabIndex |-> idx]]

\* <<number of tabs, current tab index>>
TabTemplates == {<<1, 0>>, <<2, 0>>, <<2, 1>>}

DefaultSize == <<1, 1>>

(***************************************************************************)
(* One Layout call runs on a record s of the layout's state:               *)
(*   root, gc, view, inResize, restore : the variables of the module       *)
(*   depth : onResize calls executing          log : the call's trace      *)
(*   sync  : the host view emits its resize notification synchronously     *)
(*   feed  : sizes of the resize notifications a feedback loop injects     *)
(* The trace lists, in order, the tree resizes ("tree"), the host view     *)
(* resizes ("view") and the entries and exits of onResize, each with the   *)
(* value of the guard, the restore flag, the depth and the layout size at  *)
(* that moment.                                                            *)
(***************************************************************************)
Ev(kind, size, s) ==
    [ev |-> kind, size |-> size, depth |-> s.depth, guard |-> s.inResize,
     restore |-> s.restore, layout |-> s.root.size]

Cur(sync, feed) ==
    [root |-> m_rootItem, gc |-> groupContent, view |-> viewSize,
     inResize |-> m_inResizeEvent, restore |-> restoreInProgress,
     depth |-> 0, log |-> <<>>, sync |-> sync, feed |-> feed, taken |-> <<>>]

RECURSIVE onResize(_, _), setLayoutSize(_, _), setSize_recursive(_, _), viewResize(_, _)

\* Layout::layoutSize
layoutSize(s) == s.root.size

\* Layout::layoutMinimumSize
layoutMinimumSize(s) == s.root.minSize

\* ItemContainer::setSize_recursive (design document: "recursive size
\* assignment"): the tree takes the size.  Resizing the items is where a
\* feedback loop re-enters onResize: each pending notification of s.feed is
\* delivered from here.
setSize_recursive(s, size) ==
    LET s1 == [s EXCEPT !.root.size = size, !.log = Append(@, Ev("tree", size, s))]
    IN  IF s1.feed # <<>>
        THEN onResize([s1 EXCEPT !.feed = Tail(@)], Head(s1.feed))
        ELSE s1

\* View::resize of the host view (design document, host view contract: the
\* view takes the size and notifies "resized", which Layout::Layout connects
\* to onResize)
viewResize(s, size) ==
    LET actual == IF s.taken # <<>> THEN Head(s.taken) ELSE size
        s1 == [s EXCEPT !.view = actual, !.log = Append(@, Ev("view", size, s)),
                        !.taken = IF @ # <<>> THEN Tail(@) ELSE @]
    IN  IF s1.sync THEN onResize(s1, actual) ELSE s1

\* setLayoutSize without the test of m_inResizeEvent
setLayoutSize_noGuard(s, size) ==
    IF size # layoutSize(s)
    THEN LET s1 == setSize_recursive(s, size)
         IN  IF ~s1.restore THEN viewResize(s1, size) ELSE s1
    ELSE s

\* setLayoutSize without the test of LayoutSaver::restoreInProgress()
setLayoutSize_noRestoreCheck(s, size) ==
    IF size # layoutSize(s)
    THEN LET s1 == setSize_recursive(s, size)
         IN  IF ~s1.inResize THEN viewResize(s1, size) ELSE s1
    ELSE s

\* setLayoutSize handing the tree the size it has
setLayoutSize_passesLayoutSize(s, size) ==
    IF size # layoutSize(s)
    THEN LET s1 == setSize_recursive(s, layoutSize(s))
         IN  IF ~s1.inResize /\ ~s1.restore
             THEN viewResize(s1, size)
             ELSE s1
    ELSE s

\* setLayoutSize without the comparison with layoutSize()
setLayoutSize_noCompare(s, size) ==
    LET s1 == setSize_recursive(s, size)
    IN  IF ~s1.inResize /\ ~s1.restore
        THEN viewResize(s1, size)
        ELSE s1

\* Layout::setLayoutSize
setLayoutSize(s, size) ==
    IF size # layoutSize(s)
    THEN LET s1 == setSize_recursive(s, size)
         IN  IF ~s1.inResize /\ ~s1.restore
             THEN viewResize(s1, size)
             ELSE s1
    ELSE s

\* onResize clearing m_inResizeEvent when it returns, whatever it was
onResize_resetsToFalse(s, newSize) ==
    LET s1 == [s EXCEPT !.log = Append(@, Ev("enter", newSize, s)),
                        !.inResize = TRUE, !.depth = @ + 1]
        s2 == IF ~s1.restore THEN setLayoutSize(s1, newSize) ELSE s1
        s3 == [s2 EXCEPT !.log = Append(@, Ev("exit", newSize, s2))]
    IN  [s3 EXCEPT !.inResize = FALSE, !.depth = @ - 1]

\* onResize without the test of LayoutSaver::restoreInProgress()
onResize_noRestoreCheck(s, newSize) ==
    LET saved == s.inResize
        s1 == [s EXCEPT !.log = Append(@, Ev("enter", newSize, s)),
                        !.inResize = TRUE, !.depth = @ + 1]
        s2 == setLayoutSize(s1, newSize)
        s3 == [s2 EXCEPT !.log = Append(@, Ev("exit", newSize, s2))]
    IN  [s3 EXCEPT !.inResize = saved, !.depth = @ - 1]

\* Layout::onResize; it returns false (OnResizeResult)
onResize(s, newSize) ==
    LET saved == s.inResize
        s1 == [s EXCEPT !.log = Append(@, Ev("enter", newSize, s)),
                        !.inResize = TRUE, !.depth = @ + 1]
        s2 == IF ~s1.restore THEN setLayoutSize(s1, newSize) ELSE s1
        s3 == [s2 EXCEPT !.log = Append(@, Ev("exit", newSize, s2))]
    IN  [s3 EXCEPT !.inResize = saved, !.depth = @ - 1]

OnResizeResult == FALSE

\* Item::setMinSize on the root (design document: the item's minimum size
\* attribute)
setMinSize(s, sz) == [s EXCEPT !.root.minSize = sz]

\* Layout::setLayoutMinimumSize
setLayoutMinimumSize(s, sz) ==
    IF sz # s.root.minSize
    THEN LET s1 == setLayoutSize(s, expandedTo(layoutSize(s), s.root.minSize))
         IN  setMinSize(s1, sz)
    ELSE s

\* Layout::updateSizeConstraints
updateSizeConstraints(s) ==
    LET newMinSize == s.root.minSize
    IN  setLayoutMinimumSize(s, newMinSize)

(***************************************************************************)
(* Persistence.  LayoutSaver::MultiSplitter is a record                    *)
(*   layout : the tree description        groups : group id -> group record*)
(***************************************************************************)
EmptyHash == [k \in {} |-> NoGroup]

\* QHash::insert: a later insertion under the same key replaces the earlier
Insert(h, k, v) == (k :> v) @@ h

\* View::id of a group's view (design document: "opaque group identifiers")
ViewId(group) == ToString(group)

\* Group::serialize (design document: "list of dock widget ids + current tab
\* index", filed under the id of the group's view)
GroupSerialize(group, gc) ==
    [id |-> ViewId(group), dockWidgets |-> gc[group].dockWidgets,
     currentTabIndex |-> gc[group].currentTabIndex]

\* Group::deserialize (design document): the group rebuilt from its record;
\* its view carries the record's id
GroupDeserialize(rec) ==
    [view |-> CHOOSE g \in GroupIds : ViewId(g) = rec.id, dockWidgets |-> rec.dockWidgets,
     currentTabIndex |-> rec.currentTabIndex]

\* ItemContainer::toVariantMap (design document: "tree-to-map conversion",
\* "nested split/leaf structure"): a leaf is described by the id of its
\* guest, empty for a placeholder; the root also by its sizing
RECURSIVE toVariantMap(_)
toVariantMap(item) ==
    IF item.isContainer
    THEN [isContainer |-> TRUE,
          children |-> [i \in DOMAIN item.children |-> toVariantMap(item.children[i])]]
    ELSE [isContainer |-> FALSE,
          guestId |-> IF item.guest = NoGroup THEN "" ELSE ViewId(item.guest)]

rootToVariantMap(root) ==
    [isContainer |-> TRUE,
     children |-> [i \in DOMAIN root.children |-> toVariantMap(root.children[i])],
     size |-> root.size, minSize |-> root.minSize]

RECURSIVE NodeCount(_)
NodeCount(map) ==
    IF map.isContainer
    THEN 1 + SumSeq([i \in DOMAIN map.children |-> NodeCount(map.children[i])])
    ELSE 1

\* ItemContainer::fillFromVariantMap (design document: "map-to-tree
\* conversion", "reconstructs the tree referencing them by id"): new items,
\* numbered from id on in enumeration order; a leaf takes the view filed
\* under its guest id, and stays without guest when there is none
RECURSIVE itemFromVariantMap(_, _, _)
itemFromVariantMap(map, id, hash) ==
    IF map.isContainer
    THEN Container(id,
            [i \in DOMAIN map.children |->
                LET before == SubSeq(map.children, 1, i - 1)
                    skip == SumSeq([j \in DOMAIN before |-> NodeCount(before[j])])
                IN  itemFromVariantMap(map.children[i], id + 1 + skip, hash)])
    ELSE Leaf(id, IF map.guestId \in DOMAIN hash THEN hash[map.guestId] ELSE NoGroup)

\* the root it is called on stays the object it is
fillFromVariantMap(root, map, hash) ==
    [Root(itemFromVariantMap(map, 0, hash).children, map.size, map.minSize)
        EXCEPT !.id = root.id]

\* the loop with the test of isContainer() inverted
RECURSIVE serializeGroups_onlyContainers(_, _, _)
serializeGroups_onlyContainers(items, gc, acc) ==
    IF items = <<>> THEN acc
    ELSE LET item == Head(items)
             group == asGroupController(item)
         IN  serializeGroups_onlyContainers(Tail(items), gc,
                IF isContainer(item) /\ group # NoGroup
                THEN Insert(acc, ViewId(group), GroupSerialize(group, gc))
                ELSE acc)

\* the loop ending at the first item that hosts no group
RECURSIVE serializeGroups_stopsAtPlaceholder(_, _, _)
serializeGroups_stopsAtPlaceholder(items, gc, acc) ==
    IF items = <<>> THEN acc
    ELSE LET item == Head(items)
             group == asGroupController(item)
         IN  IF ~isContainer(item) /\ group # NoGroup
             THEN serializeGroups_stopsAtPlaceholder(Tail(items), gc,
                     Insert(acc, ViewId(group), GroupSerialize(group, gc)))
             ELSE acc

\* Layout::serialize, the loop over the items (lines 320-326)
RECURSIVE serializeGroups(_, _, _)
serializeGroups(items, gc, acc) ==
    IF items = <<>> THEN acc
    ELSE LET item == Head(items)
             group == asGroupController(item)
         IN  serializeGroups(Tail(items), gc,
                IF ~isContainer(item) /\ group # NoGroup
                THEN Insert(acc, ViewId(group), GroupSerialize(group, gc))
                ELSE acc)

\* Layout::serialize
serialize(root, gc) ==
    [layout |-> rootToVariantMap(root),
     groups |-> serializeGroups(items_recursive(root), gc, EmptyHash)]

\* Layout::deserialize, the loop over the group records (lines 282-287):
\* the views of the rebuilt groups, filed under the records' ids
deserializeGroups(l) ==
    [id \in {l.groups[k].id : k \in DOMAIN l.groups} |->
        LET rec == CHOOSE r \in Range(l.groups) : r.id = id
        IN  GroupDeserialize(rec).view]

\* the groups rebuilt by Layout::deserialize that the new tree hosts
deserializedContent(l, root) ==
    [g \in Range(groups(root)) |->
        LET rec == CHOOSE r \in Range(l.groups) : GroupDeserialize(r).view = g
        IN  [dockWidgets |-> GroupDeserialize(rec).dockWidgets,
             currentTabIndex |-> GroupDeserialize(rec).currentTabIndex]]

\* deserialize sizing the tree to the host view's size as it is
deserialize_noExpand(s, l) ==
    LET hash == deserializeGroups(l)
        root == fillFromVariantMap(s.root, l.layout, hash)
        s1 == [s EXCEPT !.root = root, !.gc = deserializedContent(l, root)]
        s2 == updateSizeConstraints(s1)
    IN  setSize_recursive(s2, s2.view)

\* Layout::deserialize; it returns true (DeserializeResult)
deserialize(s, l) ==
    LET hash == deserializeGroups(l)
        root == fillFromVariantMap(s.root, l.layout, hash)
        s1 == [s EXCEPT !.root = root, !.gc = deserializedContent(l, root)]
        s2 == updateSizeConstraints(s1)
        newLayoutSize == expandedTo(s2.view, s2.root.minSize)
    IN  setSize_recursive(s2, newLayoutSize)

DeserializeResult == TRUE

(***************************************************************************)
(* Close events.                                                           *)
(***************************************************************************)
\* Layout::onCloseEvent, the loop (lines 355-359).  ev is the event
\* (accepted) and the groups it was sent to so far (delivered); sendEvent
\* hands the event to the group's view, and the groups of vetoers ignore it.
\* the loop without its break
RECURSIVE sendToGroups_noBreak(_, _, _)
sendToGroups_noBreak(gs, vetoers, ev) ==
    IF gs = <<>> THEN ev
    ELSE sendToGroups_noBreak(Tail(gs), vetoers,
            [accepted |-> IF Head(gs) \in vetoers THEN FALSE ELSE ev.accepted,
             delivered |-> Append(ev.delivered, Head(gs))])

RECURSIVE sendToGroups(_, _, _)
sendToGroups(gs, vetoers, ev) ==
    IF gs = <<>> THEN ev
    ELSE LET sent == [accepted |-> IF Head(gs) \in vetoers THEN FALSE ELSE ev.accepted,
                      delivered |-> Append(ev.delivered, Head(gs))]
         IN  IF ~sent.accepted THEN sent
             ELSE sendToGroups(Tail(gs), vetoers, sent)

\* onCloseEvent without e->accept()
onCloseEvent_noAccept(root, vetoers, e) == sendToGroups(groups(root), vetoers, e)

\* Layout::onCloseEvent
onCloseEvent(root, vetoers, e) ==
    LET accepted == [e EXCEPT !.accepted = TRUE]
    IN  sendToGroups(groups(root), vetoers, accepted)

(***************************************************************************)
(* Items: removal and placeholders.  An item is named by its id, as the    *)
(* code names it by its address.                                           *)
(***************************************************************************)
\* the items below a container, containers included, depth first
RECURSIVE descendants(_)
descendants(item) ==
    IF item.isContainer
    THEN ConcatAll([i \in DOMAIN item.children |->
                      <<item.children[i]>> \o descendants(item.children[i])])
    ELSE <<>>

ItemIds(root) == {x.id : x \in Range(descendants(root))}

\* Layout::containsItem: ItemContainer::contains_recursive of the root
\* (design document: "recursive containment test")
containsItem(root, item) == item # nullptr /\ item.id \in ItemIds(root)

\* Layout::count: ItemContainer::count_recursive, the leaf items
count(root) == Len(items_recursive(root))

\* Layout::visibleCount: the leaf items that are no placeholders
visibleCount(root) == Len(groups(root))

\* placeholderCount with the difference taken the other way round
placeholderCount_reversed(root) == visibleCount(root) - count(root)

\* Layout::placeholderCount
placeholderCount(root) == count(root) - visibleCount(root)

\* Item::parentContainer: the container whose child the item is
parentContainer(root, item) ==
    LET holders == {c \in {root} \cup Range(descendants(root)) :
                       c.isContainer /\ \E i \in DOMAIN c.children : c.children[i].id = item.id}
    IN  IF holders = {} THEN nullptr ELSE CHOOSE c \in holders : TRUE

\* a sequence without the elements of the given ids
RECURSIVE Without(_, _)
Without(kids, ids) ==
    IF kids = <<>> THEN <<>>
    ELSE (IF Head(kids).id \in ids THEN <<>> ELSE <<Head(kids)>>) \o Without(Tail(kids), ids)

\* ItemContainer::removeItem (design document: "delegates removal to the
\* item's parent container", which "owns its children exclusively"): the
\* container named parent, somewhere in the tree, loses its child item
RECURSIVE removeFrom(_, _, _)
removeFrom(tree, parent, item) ==
    IF ~tree.isContainer THEN tree
    ELSE LET kids == IF tree.id = parent.id /\ tree.isContainer = parent.isContainer
                     THEN Without(tree.children, {item.id})
                     ELSE tree.children
         IN  [tree EXCEPT !.children = [i \in DOMAIN kids |-> removeFrom(kids[i], parent, item)]]

\* the groups that are bound to an item of the tree
Hosted(gc, root) == [g \in DOMAIN gc \cap Range(groups(root)) |-> gc[g]]

\* the item of the tree at the address of item
itemAt(root, item) == CHOOSE x \in Range(descendants(root)) : x.id = item.id

\* the tree with the guest of the leaf item set to g
RECURSIVE setGuest(_, _, _)
setGuest(tree, item, g) ==
    IF tree.isContainer
    THEN [tree EXCEPT !.children =
            [i \in DOMAIN tree.children |-> setGuest(tree.children[i], item, g)]]
    ELSE IF tree.id = item.id THEN [tree EXCEPT !.guest = g] ELSE tree

\* Item::restore(guestView) (design document: Placeholder -> Normal, the
\* item hosts the guest again)
restore(root, item, g) == setGuest(root, item, g)

\* Item::turnIntoPlaceholder (design document: Normal -> Placeholder, "no
\* guest, geometry retained")
turnIntoPlaceholder(root, item) == setGuest(root, item, NoGroup)

\* Layout::clearLayout: ItemContainer::clear, the root loses its children
clearLayout(s) == [s EXCEPT !.root.children = <<>>, !.gc = Hosted(@, [s.root EXCEPT !.children = <<>>])]

\* removeItem closing the item's panel where it should remove the item
removeItem_turnsIntoPlaceholder(s, item) ==
    IF item = nullptr
    THEN [s EXCEPT !.log = Append(@, Ev("qWarning", <<>>, s))]
    ELSE LET root == turnIntoPlaceholder(s.root, item)
         IN  [s EXCEPT !.root = root, !.gc = Hosted(@, root)]

\* removeItem with its test of item inverted
removeItem_invertedCheck(s, item) ==
    IF item # nullptr
    THEN [s EXCEPT !.log = Append(@, Ev("qWarning", <<>>, s))]
    ELSE [s EXCEPT !.log = Append(@, Ev("null dereference", <<>>, s))]

\* removeItem asking the root item, not the item's parent, to remove it
removeItem_viaRoot(s, item) ==
    IF item = nullptr
    THEN [s EXCEPT !.log = Append(@, Ev("qWarning", <<>>, s))]
    ELSE LET root == removeFrom(s.root, s.root, item)
         IN  [s EXCEPT !.root = root, !.gc = Hosted(@, root)]

\* Layout::removeItem.  item->parentContainer() is called through with no
\* test: it is null for the root item, and an item that is in the tree no
\* longer was deleted by the container that removed it
removeItem(s, item) ==
    IF item = nullptr
    THEN [s EXCEPT !.log = Append(@, Ev("qWarning", <<>>, s))]
    ELSE LET parent == parentContainer(s.root, item)
         IN  IF parent = nullptr
             THEN [s EXCEPT !.log = Append(@,
                     Ev(IF item.id = s.root.id THEN "null dereference" ELSE "use after delete",
                        <<>>, s))]
             ELSE LET root == removeFrom(s.root, parent, item)
                  IN  [s EXCEPT !.root = root, !.gc = Hosted(@, root)]

\* new Core::Group(view()): a group without dock widgets, not yet visible;
\* it is named by the first group id that is free
NewGroupId(gc) == CHOOSE g \in GroupIds : g \notin DOMAIN gc /\ \A h \in 1..(g - 1) : h \in DOMAIN gc

EmptyGroup == [dockWidgets |-> <<>>, currentTabIndex |-> -1]

\* Group::dockWidgetCount
dockWidgetCount(grp) == Len(grp.dockWidgets)

\* x becomes the element after the first index ones; an index that is no
\* position of the sequence puts it last, as a tab bar does
InsertAt(seq, index, x) ==
    IF index \in 0..Len(seq)
    THEN SubSeq(seq, 1, index) \o <<x>> \o SubSeq(seq, index + 1, Len(seq))
    ELSE Append(seq, x)

\* Group::insertWidget(dw, index) (design document: "add/insert/remove dock
\* widget, tab index management"): the first tab of a group becomes its
\* current tab, and the current tab stays the current one otherwise
insertWidget(grp, dw, index) ==
    [dockWidgets |-> InsertAt(grp.dockWidgets, index, dw),
     currentTabIndex |->
        IF grp.dockWidgets = <<>> THEN 0
        ELSE IF index <= grp.currentTabIndex THEN grp.currentTabIndex + 1
        ELSE grp.currentTabIndex]

\* Group::addTab(dw): dw becomes the last tab
addTab(grp, dw) == insertWidget(grp, dw, dockWidgetCount(grp))

\* lines 151-154 of restorePlaceholder: a placeholder gets a new group
restoreGroup(s, item) ==
    IF isPlaceholder(itemAt(s.root, item))
    THEN LET newGroup == NewGroupId(s.gc)
         IN  [s EXCEPT !.root = restore(@, item, newGroup),
                       !.gc = (newGroup :> EmptyGroup) @@ @,
                       !.log = @ \o <<Ev("new Group", newGroup, s),
                                      Ev("restore", newGroup, s)>>]
    ELSE s

\* restorePlaceholder appending whatever tabIndex is
restorePlaceholder_alwaysAppend(s, dw, item, tabIndex) ==
    LET s1 == restoreGroup(s, item)
        group == asGroupController(itemAt(s1.root, item))
        s2 == [s1 EXCEPT !.gc[group] = addTab(@, dw),
                         !.log = Append(@, Ev("addTab", group, s1))]
    IN  [s2 EXCEPT !.log = Append(@, Ev("setVisible", group, s2))]

\* restorePlaceholder without the creation of a group for a placeholder
restorePlaceholder_noNewGroup(s, dw, item, tabIndex) ==
    LET group == asGroupController(itemAt(s.root, item))
    IN  IF group = NoGroup
        THEN [s EXCEPT !.log = Append(@, Ev("null dereference", <<>>, s))]
        ELSE LET s2 == [s EXCEPT !.gc[group] = addTab(@, dw),
                                 !.log = Append(@, Ev("addTab", group, s))]
             IN  [s2 EXCEPT !.log = Append(@, Ev("setVisible", group, s2))]

\* restorePlaceholder leaving the group as visible as it was
restorePlaceholder_noSetVisible(s, dw, item, tabIndex) ==
    LET s1 == restoreGroup(s, item)
        group == asGroupController(itemAt(s1.root, item))
    IN  IF tabIndex # -1 /\ dockWidgetCount(s1.gc[group]) >= tabIndex
        THEN [s1 EXCEPT !.gc[group] = insertWidget(@, dw, tabIndex),
                        !.log = Append(@, Ev("insertWidget", group, s1))]
        ELSE [s1 EXCEPT !.gc[group] = addTab(@, dw),
                        !.log = Append(@, Ev("addTab", group, s1))]

\* Layout::restorePlaceholder; group is not null (Q_ASSERT) as item is a leaf
restorePlaceholder(s, dw, item, tabIndex) ==
    LET s1 == restoreGroup(s, item)
        group == asGroupController(itemAt(s1.root, item))
        s2 == IF tabIndex # -1 /\ dockWidgetCount(s1.gc[group]) >= tabIndex
              THEN [s1 EXCEPT !.gc[group] = insertWidget(@, dw, tabIndex),
                              !.log = Append(@, Ev("insertWidget", group, s1))]
              ELSE [s1 EXCEPT !.gc[group] = addTab(@, dw),
                              !.log = Append(@, Ev("addTab", group, s1))]
    IN  \* group->setVisible(true)
        [s2 EXCEPT !.log = Append(@, Ev("setVisible", group, s2))]

(***************************************************************************)
(* The split of a container's size among its children (design document:    *)
(* ItemContainer, "owning size distribution among children").  The root    *)
(* splits its width (axis 1), a nested container its height (axis 2);      *)
(* between two neighbours lies a separator of Item::separatorThickness.    *)
(***************************************************************************)
\* the values of the static Item::separatorThickness
SeparatorThicknesses == 0..1

\* the minimum sizes of a leaf item
LeafMinSizes == {<<1, 1>>, <<1, 2>>, <<2, 1>>}

\* the sizes of a layout that is split
SplitSizes == Dims \X Dims

Other(axis) == 3 - axis

MaxOf(ns) == IF ns = {} THEN 0 ELSE CHOOSE n \in ns : \A m \in ns : m <= n

\* the separators between n children
Separators(n, th) == IF n = 0 THEN 0 ELSE (n - 1) * th

\* Item::minSize: the minimum of a leaf, and for a container the sum of
\* its children's minima and its separators along its axis and the largest
\* minimum of a child across ("accumulated min size")
RECURSIVE minSize(_, _, _, _)
minSize(item, axis, leafMin, th) ==
    IF ~item.isContainer THEN leafMin[item.id]
    ELSE LET mins == [i \in DOMAIN item.children |->
                        minSize(item.children[i], Other(axis), leafMin, th)]
             along == SumSeq([i \in DOMAIN mins |-> mins[i][axis]]) + Separators(Len(mins), th)
             across == MaxOf({mins[i][Other(axis)] : i \in DOMAIN mins})
         IN  IF axis = 1 THEN <<along, across>> ELSE <<across, along>>

\* the extents of the children along the axis: every child has its minimum
\* and the last child takes what is left of avail
distribute(avail, mins) ==
    LET rest == avail - SumSeq(mins)
    IN  [i \in DOMAIN mins |->
            IF i = Len(mins) /\ rest > 0 THEN mins[i] + rest ELSE mins[i]]

\* ItemContainer::setSize_recursive, the sizes it gives the children of a
\* container of the given size
childSizes(item, size, axis, leafMin, th) ==
    LET kids == item.children
        mins == [i \in DOMAIN kids |-> minSize(kids[i], Other(axis), leafMin, th)[axis]]
        along == distribute(size[axis] - Separators(Len(kids), th), mins)
    IN  [i \in DOMAIN kids |->
            IF axis = 1 THEN <<along[i], size[2]>> ELSE <<size[1], along[i]>>]

(***************************************************************************)
(* Main window discovery.  The ancestors of the host view are a sequence,  *)
(* the parent view first; an ancestor has a view type and an object name.  *)
(* A main window is named by its place in the sequence, NoWindow is null.  *)
(***************************************************************************)
Platforms == {"QtWidgets", "QtQuick", "Flutter"}

\* Platform::isQtWidgets
isQtWidgets(platform) == platform = "QtWidgets"

Ancestors ==
    [type : {"MainWindow", "Other"}, objectName : {"MyCentralWidget", ""}]

AncestorChains == UNION {[1..n -> Ancestors] : n \in 0..MaxAncestors}

NoWindow == 0

\* the outcome of calling through a null parent view
NullDereference == -1

\* View::firstParentOfType(ViewType::MainWindow): the nearest ancestor that
\* is a main window
firstParentOfType(chain) ==
    LET found == {i \in DOMAIN chain : chain[i].type = "MainWindow"}
    IN  IF found = {} THEN NoWindow ELSE CHOOSE i \in found : \A j \in found : i <= j

\* View::asMainWindowController of the i-th ancestor
asMainWindowController(chain, i) ==
    IF chain[i].type = "MainWindow" THEN i ELSE NoWindow

\* mainWindow honouring nesting whatever the platform
mainWindow_ignoresPlatform(chain, honourNesting, platform) ==
    IF honourNesting
    THEN firstParentOfType(chain)
    ELSE IF chain # <<>>
         THEN IF chain[1].objectName = "MyCentralWidget"
              THEN IF Len(chain) >= 2 THEN asMainWindowController(chain, 2)
                   ELSE NullDereference
              ELSE asMainWindowController(chain, 1)
         ELSE NoWindow

\* Layout::mainWindow(honourNesting); pw->parentView() is dereferenced
\* unchecked when the parent is named MyCentralWidget
mainWindow(chain, honourNesting, platform) ==
    LET honour == honourNesting /\ isQtWidgets(platform)
    IN  IF honour
        THEN firstParentOfType(chain)
        ELSE IF chain # <<>>
             THEN IF chain[1].objectName = "MyCentralWidget"
                  THEN IF Len(chain) >= 2 THEN asMainWindowController(chain, 2)
                       ELSE NullDereference
                  ELSE asMainWindowController(chain, 1)
             ELSE NoWindow

(***************************************************************************)
(* The state machine.  Every action is one call into the Layout, run to    *)
(* its return; last records the call.                                      *)
(***************************************************************************)
Call(op, arg, ret, log) == [op |-> op, arg |-> arg, ret |-> ret, log |-> log]

SizeArg(size, sync, feed) == [size |-> size, sync |-> sync, feed |-> feed]

\* the state a call leaves behind
Returns(s, op, arg, ret) ==
    /\ m_rootItem' = s.root
    /\ groupContent' = s.gc
    /\ viewSize' = s.view
    /\ m_inResizeEvent' = s.inResize
    /\ UNCHANGED <<restoreInProgress, lifeVars>>
    /\ last' = Call(op, arg, ret, s.log)

\* a layout built from scratch: a root of the given children
BuiltLayout(kids, sz, minSz, tabs) ==
    [root |-> Root(kids, sz, minSz), gc |-> Contents(kids, tabs[1], tabs[2])]

\* the sizing specification keeps to one tree: a single hosting leaf
SizingTreeChildren == {<<Leaf(1, 1)>>}

\* the layouts whose records the sizing specification restores
SizingLayouts ==
    {BuiltLayout(kids, DefaultSize, minSz, <<1, 0>>) :
        kids \in SizingTreeChildren, minSz \in Sizes}

\* the layouts whose records the tree specification restores
TreeLayouts ==
    {BuiltLayout(kids, DefaultSize, DefaultSize, tabs) :
        kids \in TreeChildren, tabs \in TabTemplates}

InitWith(layouts) ==
    /\ \E b \in layouts :
          /\ m_rootItem = b.root
          /\ groupContent = b.gc
    /\ viewSize = DefaultSize
    /\ m_inResizeEvent = FALSE
    /\ restoreInProgress = FALSE
    /\ m_viewDeleted = FALSE
    /\ heap = [OwnRootHeap EXCEPT !.viewMinimumSize = m_rootItem.minSize]
    /\ last = Call("init", <<>>, <<>>, <<>>)

Init == InitWith({b \in SizingLayouts : b.root.minSize = DefaultSize})

InitTree == InitWith(TreeLayouts)

\* the host view's "resized" notification, or a direct call
OnResize(newSize) ==
    /\ newSize \in Sizes
    /\ Returns(onResize(Cur(TRUE, <<>>), newSize), "onResize",
            SizeArg(newSize, TRUE, <<>>), OnResizeResult)

\* onResize called again from within itself by a resize feedback loop: while
\* the tree is resized, the notification of feed arrives
OnResizeFeedback(newSize, feed) ==
    /\ newSize \in Sizes /\ feed \in Seq(Sizes)
    /\ Returns(onResize(Cur(TRUE, feed), newSize), "onResize",
            SizeArg(newSize, TRUE, feed), OnResizeResult)

SetLayoutSize(size, sync) ==
    /\ size \in Sizes
    /\ Returns(setLayoutSize(Cur(sync, <<>>), size), "setLayoutSize",
            SizeArg(size, sync, <<>>), <<>>)

SetLayoutMinimumSize(sz, sync) ==
    /\ sz \in Sizes
    /\ Returns(setLayoutMinimumSize(Cur(sync, <<>>), sz), "setLayoutMinimumSize",
            SizeArg(sz, sync, <<>>), <<>>)

\* the host view's "layoutInvalidated" notification, or a direct call
UpdateSizeConstraints(sync) ==
    /\ sync \in BOOLEAN
    /\ Returns(updateSizeConstraints(Cur(sync, <<>>)), "updateSizeConstraints",
            SizeArg(m_rootItem.minSize, sync, <<>>), <<>>)

\* the records serialize() produces for the layouts, each with its layout
Persisted(layouts) == {[from |-> T, record |-> serialize(T.root, T.gc)] : T \in layouts}

SizingRecords == Persisted(SizingLayouts)

TreeRecords == Persisted(TreeLayouts)

\* deserialize(p.record), where p.record is serialize() of the layout p.from
Deserialize(p) ==
    \* Q_ASSERT(!group.id.isEmpty())
    /\ \A k \in DOMAIN p.record.groups : p.record.groups[k].id # ""
    /\ Returns(deserialize(Cur(TRUE, <<>>), p.record), "deserialize", p.from,
               DeserializeResult)

\* a record whose tree refers to a group the record does not hold: the record
\* of a layout with its group records left out
UnknownGroupRecord(T) == [serialize(T.root, T.gc) EXCEPT !.groups = EmptyHash]

\* a record whose tree describes a container of fewer than two children
DegenerateRecord(T, kids) ==
    [serialize(T.root, T.gc) EXCEPT
        !.layout.children = Append(@, [isContainer |-> TRUE, children |-> kids])]

\* does the tree description refer to a group id the record does not hold,
\* or describe a container below the root with fewer than two children
RECURSIVE MalformedTree(_, _, _)
MalformedTree(map, ids, isRoot) ==
    IF map.isContainer
    THEN \/ ~isRoot /\ Len(map.children) < 2
         \/ \E i \in DOMAIN map.children : MalformedTree(map.children[i], ids, FALSE)
    ELSE map.guestId # "" /\ map.guestId \notin ids

Malformed(rec) == MalformedTree(rec.layout, DOMAIN rec.groups, TRUE)

\* the malformed records handed to deserialize
MalformedRecords ==
    LET one == BuiltLayout(<<Leaf(1, 1)>>, DefaultSize, DefaultSize, <<1, 0>>)
        two == BuiltLayout(<<Leaf(1, 1), Leaf(2, 2)>>, DefaultSize, DefaultSize, <<2, 1>>)
    IN  {UnknownGroupRecord(one), UnknownGroupRecord(two),
         DegenerateRecord(one, <<>>),
         DegenerateRecord(one, <<[isContainer |-> FALSE, guestId |-> ""]>>)}

\* deserialize(rec) for a malformed record rec
DeserializeMalformed(rec) ==
    \* Q_ASSERT(!group.id.isEmpty())
    /\ \A k \in DOMAIN rec.groups : rec.groups[k].id # ""
    /\ Malformed(rec)
    /\ Returns(deserialize(Cur(TRUE, <<>>), rec), "deserializeMalformed", rec,
               DeserializeResult)

Serialize ==
    /\ last' = Call("serialize", <<>>, serialize(m_rootItem, groupContent), <<>>)
    /\ UNCHANGED <<m_rootItem, groupContent, viewSize, m_inResizeEvent, restoreInProgress,
                   lifeVars>>

OnCloseEvent(entry, vetoers) ==
    /\ last' = Call("onCloseEvent", [entry |-> entry, vetoers |-> vetoers],
                    onCloseEvent(m_rootItem, vetoers,
                                 [accepted |-> entry, delivered |-> <<>>]),
                    <<>>)
    /\ UNCHANGED <<m_rootItem, groupContent, viewSize, m_inResizeEvent, restoreInProgress,
                   lifeVars>>

\* removeItem(item): item is null, or an item of the tree
RemoveItem(item) ==
    /\ item = nullptr \/ containsItem(m_rootItem, item)
    /\ Returns(removeItem(Cur(TRUE, <<>>), item), "removeItem", item, <<>>)

\* the dock widgets of the groups of the layout
DockWidgetsIn(gc) == UNION {Range(gc[g].dockWidgets) : g \in DOMAIN gc}

\* the dock widget whose position is restored; it is in no group of a
\* layout built from scratch
RestoredDockWidget == <<0, 1>>

\* the group of a leaf item holds fewer than n dock widgets
HoldsFewer(item, n) ==
    IF isPlaceholder(item) THEN TRUE
    ELSE dockWidgetCount(groupContent[asGroupController(item)]) < n

\* restorePlaceholder(dw, item, tabIndex): item is a leaf item of the tree
\* (precondition: "item belongs to this layout's tree"), dw is in no group
RestorePlaceholder(dw, item, tabIndex) ==
    /\ containsItem(m_rootItem, item) /\ ~isContainer(item)
    /\ dw \notin DockWidgetsIn(groupContent)
    /\ HoldsFewer(item, MaxTabs)
    /\ Returns(restorePlaceholder(Cur(TRUE, <<>>), dw, item, tabIndex), "restorePlaceholder",
               [dw |-> dw, item |-> item, tabIndex |-> tabIndex], <<>>)

\* item->turnIntoPlaceholder(): the panel of a leaf item is closed
TurnIntoPlaceholder(item) ==
    /\ containsItem(m_rootItem, item) /\ ~isContainer(item) /\ ~isPlaceholder(item)
    /\ m_rootItem' = turnIntoPlaceholder(m_rootItem, item)
    /\ groupContent' = Hosted(groupContent, m_rootItem')
    /\ last' = Call("turnIntoPlaceholder", item, <<>>, <<>>)
    /\ UNCHANGED <<viewSize, m_inResizeEvent, restoreInProgress, lifeVars>>

\* the items of the tree change their minimum sizes: the root accumulates a
\* new minimum size (design document: ItemContainer, "accumulated min size")
RootMinSizeChanged(sz) ==
    /\ sz # m_rootItem.minSize
    /\ m_rootItem' = [m_rootItem EXCEPT !.minSize = sz]
    /\ last' = Call("minSizeChanged", sz, <<>>, <<>>)
    /\ UNCHANGED <<groupContent, viewSize, m_inResizeEvent, restoreInProgress, lifeVars>>

\* LayoutSaver starts or ends applying a persisted layout (design document:
\* the process-wide "restore in progress" flag)
SetRestoreInProgress ==
    /\ restoreInProgress' = ~restoreInProgress
    /\ last' = Call("setRestoreInProgress", <<>>, <<>>, <<>>)
    /\ UNCHANGED <<m_rootItem, groupContent, viewSize, m_inResizeEvent, lifeVars>>

Next ==
    \/ \E sz \in Sizes : RootMinSizeChanged(sz)
    \/ \E newSize \in Sizes : OnResize(newSize)
    \/ \E newSize \in Sizes, nested \in Sizes : OnResizeFeedback(newSize, <<nested>>)
    \/ \E size \in Sizes, sync \in BOOLEAN : SetLayoutSize(size, sync)
    \/ \E sz \in Sizes, sync \in BOOLEAN : SetLayoutMinimumSize(sz, sync)
    \/ \E sync \in BOOLEAN : UpdateSizeConstraints(sync)
    \/ \E p \in SizingRecords : Deserialize(p)
    \/ SetRestoreInProgress

\* sizing: the layout and its host view
Spec == Init /\ [][Next]_vars

\* the sets of groups that may ignore a close event
GroupSets == SUBSET Range(groups(m_rootItem))

NextTree ==
    \/ \E entry \in BOOLEAN, vetoers \in GroupSets : OnCloseEvent(entry, vetoers)
    \/ Serialize
    \/ \E p \in TreeRecords : Deserialize(p)
    \/ \E rec \in MalformedRecords : DeserializeMalformed(rec)

\* the tree, its groups and its persistence
SpecTree == InitTree /\ [][NextTree]_vars

(***************************************************************************)
(* Properties.                                                             *)
(***************************************************************************)
Closed == last.op = "onCloseEvent"

\* the position in gs of the first group that ignores the event
FirstVeto(gs, vetoers) ==
    CHOOSE k \in 1..Len(gs) : gs[k] \in vetoers /\ \A j \in 1..(k - 1) : gs[j] \notin vetoers

\* C1: when some group of the layout vetoes, onCloseEvent delivers the close
\* event to the groups in enumeration order up to and including the first
\* vetoing group, to no later group, and the event ends not accepted.
C1_StopsAtFirstVeto ==
    Closed /\ last.arg.vetoers \cap Range(groups(m_rootItem)) # {} =>
        LET gs == groups(m_rootItem)
        IN  /\ last.ret.delivered = SubSeq(gs, 1, FirstVeto(gs, last.arg.vetoers))
            /\ last.ret.accepted = FALSE

\* groups [G1, G2, G3] with G2 vetoing: delivered to G1, G2; not accepted
C1_Witness ==
    /\ Closed
    /\ Len(groups(m_rootItem)) = 3
    /\ last.arg.vetoers = {groups(m_rootItem)[2]}
    /\ last.ret.delivered = SubSeq(groups(m_rootItem), 1, 2)
    /\ ~last.ret.accepted

\* C2: when no group vetoes, onCloseEvent delivers the close event to every
\* group exactly once, in enumeration order, and the event ends accepted,
\* whatever its accepted flag was on entry and also with no groups at all.
C2_AllGroupsWhenNoVeto ==
    Closed /\ last.arg.vetoers \cap Range(groups(m_rootItem)) = {} =>
        /\ last.ret.delivered = groups(m_rootItem)
        /\ last.ret.accepted = TRUE

\* an event that enters not accepted is delivered to three groups, accepted
C2_Witness ==
    /\ Closed
    /\ last.arg.entry = FALSE
    /\ last.arg.vetoers = {}
    /\ Len(last.ret.delivered) = 3
    /\ last.ret.accepted

\* an event that enters not accepted ends accepted in a layout without groups
C2_WitnessNoGroups ==
    Closed /\ last.arg.entry = FALSE /\ groups(m_rootItem) = <<>> /\ last.ret.accepted

Log == last.log

\* the i-th step of the trace happened inside an onResize call that was
\* made while another onResize call was executing
InNested(i) == Log[i].depth >= 2

\* the i-th step of the trace is the entry of such a nested call
NestedEntry(i) == Log[i].ev = "enter" /\ Log[i].guard

\* C3 as stated: an onResize call made while an outer onResize call is
\* executing (m_inResizeEvent already true) is a no-op for every newSize: it
\* resizes neither the item tree nor the host view.
C3_NestedIsNoOp ==
    \A i \in DOMAIN Log : InNested(i) => Log[i].ev \notin {"tree", "view"}

\* C3 amended: a nested onResize call never resizes the host view; it is a
\* no-op when newSize equals the layout size or a restore is in progress,
\* and otherwise it resizes the item tree to newSize.
C3_NestedNeverResizesView ==
    /\ \A i \in DOMAIN Log : InNested(i) => Log[i].ev # "view"
    /\ \A i \in DOMAIN Log :
          NestedEntry(i) =>
              IF Log[i].size = Log[i].layout \/ Log[i].restore
              THEN Log[i + 1].ev = "exit" /\ InNested(i + 1)
              ELSE /\ Log[i + 1] = [Log[i] EXCEPT !.ev = "tree", !.depth = @ + 1]
                   /\ Log[i + 2].ev = "exit" /\ InNested(i + 2)
                   /\ Log[i + 2].layout = Log[i].size

\* a nested call with a size other than the layout's has resized the tree
C3_Witness ==
    \E i \in DOMAIN Log :
        /\ NestedEntry(i)
        /\ Log[i].size # Log[i].layout
        /\ Log[i + 1].ev = "tree" /\ InNested(i + 1)
        /\ m_rootItem.size = Log[i].size

\* C4: through any Layout operation, the host view is never resized while
\* m_inResizeEvent is true or while a layout restore is in progress; there
\* setLayoutSize resizes the item tree only.
C4_NoViewResizeUnderGuards ==
    \A i \in DOMAIN Log : Log[i].ev = "view" => ~Log[i].guard /\ ~Log[i].restore

\* setLayoutSize has resized the tree, and not the view, during a restore
C4_Witness ==
    /\ last.op = "setLayoutSize"
    /\ restoreInProgress
    /\ \E i \in DOMAIN Log : Log[i].ev = "tree"
    /\ viewSize # m_rootItem.size

C6_OnResize ==
    [][last'.op = "onResize" =>
        /\ last'.ret = FALSE
        /\ viewSize' = viewSize
        /\ \A i \in DOMAIN last'.log : last'.log[i].ev # "view"
        /\ IF restoreInProgress
           THEN /\ m_rootItem' = m_rootItem
                /\ \A i \in DOMAIN last'.log : last'.log[i].ev # "tree"
           ELSE /\ last'.arg.size # m_rootItem.size =>
                    last'.log[2].ev = "tree" /\ last'.log[2].size = last'.arg.size
                /\ last'.arg.feed = <<>> => m_rootItem'.size = last'.arg.size]_vars

\* onResize was called with a new size during a restore
C6_Witness ==
    /\ last.op = "onResize"
    /\ restoreInProgress
    /\ last.arg.size # m_rootItem.size
    /\ last.ret = FALSE

\* C7 as stated: after updateSizeConstraints() the layout size and the host
\* view have not been shrunk, and if the tree's minimum size exceeded the
\* layout size in some dimension before the call, the layout size is now at
\* least that minimum in both dimensions.
C7_UpdateSizeConstraintsGrows ==
    [][last'.op = "updateSizeConstraints" =>
        /\ AtLeast(m_rootItem'.size, m_rootItem.size)
        /\ AtLeast(viewSize', viewSize)
        /\ ~AtLeast(m_rootItem.size, m_rootItem.minSize) =>
              AtLeast(m_rootItem'.size, m_rootItem.minSize)]_vars

\* C8 as stated: after setLayoutMinimumSize(sz) the root's minimum size is
\* sz and layoutSize() is at least sz in width and in height.
C8_LayoutAtLeastNewMinimum ==
    last.op = "setLayoutMinimumSize" =>
        /\ m_rootItem.minSize = last.arg.size
        /\ AtLeast(m_rootItem.size, last.arg.size)

Deserialized == last.op = "deserialize"

\* the parent/child structure of a subtree and the group of each leaf
RECURSIVE Structure(_)
Structure(item) ==
    IF item.isContainer
    THEN [kind |-> "container",
          parts |-> [i \in DOMAIN item.children |-> Structure(item.children[i])]]
    ELSE [kind |-> "leaf", parts |-> <<item.guest>>]

C10_SizeAfterDeserialize ==
    Deserialized =>
        /\ m_rootItem.size = expandedTo(viewSize, m_rootItem.minSize)
        /\ AtLeast(m_rootItem.size, m_rootItem.minSize)
        /\ last.ret = TRUE

\* a restore in progress, a host view below the restored tree's minimum in
\* one dimension and above it in the other
C10_Witness ==
    /\ Deserialized
    /\ restoreInProgress
    /\ viewSize[1] < m_rootItem.minSize[1]
    /\ viewSize[2] > m_rootItem.minSize[2]
    /\ m_rootItem.size = <<m_rootItem.minSize[1], viewSize[2]>>

\* the same without a restore in progress
C10_WitnessNoRestore ==
    Deserialized /\ ~restoreInProgress /\ ~AtLeast(viewSize, m_rootItem.minSize)

ClearLayout ==
    /\ m_rootItem # nullptr
    /\ Returns(clearLayout(Cur(TRUE, <<>>)), "clearLayout", <<>>, <<>>)

\* the Layout's hold on its root item during a call
Own == [root |-> m_rootItem, heap |-> heap, viewDeleted |-> m_viewDeleted, log |-> <<>>]

\* the state an ownership call leaves behind
Owns(o, op, arg) ==
    /\ m_rootItem' = o.root
    /\ heap' = o.heap
    /\ m_viewDeleted' = o.viewDeleted
    /\ last' = Call(op, arg, <<>>, o.log)
    /\ UNCHANGED <<groupContent, viewSize, m_inResizeEvent, restoreInProgress>>

\* a new root item, created for the Layout's view by the caller (design
\* document: "root item's host view equals the Layout's own view")
NewRoot(h) ==
    [Root(<<>>, DefaultSize, DefaultSize) EXCEPT !.id = RootId(Cardinality(Handed(h)))]

\* the Layout and its view are there, and the process runs
Alive == ~heap.crashed /\ ~heap.layoutDestroyed /\ ~heap.viewDestroyed

\* setRootItem(root) of a newly created root
SetRootItem ==
    /\ Alive /\ Cardinality(Handed(heap)) < MaxRoots
    /\ LET root == NewRoot(heap)
       IN  Owns(setRootItem([Own EXCEPT !.heap = Hand(@, root, LayoutView)], root),
                "setRootItem", root.id)

\* viewAboutToBeDeleted() called on the Layout
ViewAboutToBeDeleted ==
    /\ Alive
    /\ Owns(viewAboutToBeDeleted(Own), "viewAboutToBeDeleted", <<>>)

\* the view is destroyed: by its owner while the Layout is there, or by the
\* Layout's destruction
ViewDestructor ==
    /\ ~heap.crashed /\ ~heap.viewDestroyed
    /\ Owns(destroyDropArea(Own), "~DropArea", <<>>)

\* the Layout is destroyed; the destruction of a view takes its Layout along
LayoutDestructor ==
    /\ ~heap.crashed /\ ~heap.layoutDestroyed
    /\ Owns(destroyLayout(Own), "~Layout", <<>>)

\* the calls below read the root item
HasRoot == Alive /\ m_rootItem # nullptr

NextOwner ==
    \/ SetRootItem
    \/ ViewAboutToBeDeleted
    \/ ViewDestructor
    \/ LayoutDestructor
    \/ HasRoot /\ ClearLayout
    \/ HasRoot /\ \E newSize \in Sizes : OnResize(newSize)
    \/ HasRoot /\ \E p \in SizingRecords : Deserialize(p)

\* the root item's ownership and host view
SpecOwner == Init /\ [][NextOwner]_vars

\* the layouts whose split is looked at: every leaf hosts its group, the
\* root has any minimum size
SplitLayouts ==
    {BuiltLayout(BuildChildren(sh, [k \in 1..LeafCount(sh) |-> k]), DefaultSize, minSz, <<1, 0>>) :
        sh \in Shapes, minSz \in SplitSizes}

InitSplit == InitWith(SplitLayouts)

\* setLayoutSize(size) with a size wide and high enough for separators, on
\* a layout that has its default size: a layout is sized once
SetLayoutSizeOfSplit(size) ==
    /\ size \in SplitSizes /\ m_rootItem.size = DefaultSize
    /\ Returns(setLayoutSize(Cur(TRUE, <<>>), size), "setLayoutSize",
               SizeArg(size, TRUE, <<>>), <<>>)

NextSplit == \E size \in SplitSizes : SetLayoutSizeOfSplit(size)

\* the sizes setLayoutSize gives the items of a tree
SpecSplit == InitSplit /\ [][NextSplit]_vars

\* the sizes a host view takes when it is resized: the size asked for, or
\* sizes of its own (a view keeps to its size constraints)
Takings == {<<>>} \cup {<<a>> : a \in Sizes} \cup {<<a, b>> : a \in Sizes, b \in Sizes}

\* setLayoutSize(size) on a layout whose host view notifies synchronously
\* and takes the sizes of taken
SetLayoutSizeTaking(size, taken) ==
    /\ size \in Sizes
    /\ Returns(setLayoutSize([Cur(TRUE, <<>>) EXCEPT !.taken = taken], size), "setLayoutSize",
               [size |-> size, sync |-> TRUE, feed |-> <<>>, taken |-> taken], <<>>)

\* the host view's "resized" notification with such a host view
OnResizeTaking(newSize, taken) ==
    /\ newSize \in Sizes
    /\ Returns(onResize([Cur(TRUE, <<>>) EXCEPT !.taken = taken], newSize), "onResize",
               [size |-> newSize, sync |-> TRUE, feed |-> <<>>, taken |-> taken],
               OnResizeResult)

NextChain ==
    \/ \E size \in Sizes, taken \in Takings : SetLayoutSizeTaking(size, taken)
    \/ \E newSize \in Sizes, taken \in Takings : OnResizeTaking(newSize, taken)
    \/ SetRestoreInProgress

\* the chain of resizes between the layout and a host view that notifies
\* synchronously
SpecChain == Init /\ [][NextChain]_vars

\* the current root item is there, not deleted
LiveRoot ==
    IF heap.crashed \/ m_rootItem = nullptr THEN FALSE ELSE heap.deletes[m_rootItem.id] = 0

\* the tree's minimum size becomes sz and the root emits minSizeChanged
NotifyMinSizeChanged(sz) ==
    /\ LiveRoot /\ sz # m_rootItem.minSize
    /\ Owns(minSizeChanged([Own EXCEPT !.root.minSize = sz]), "root.minSizeChanged", sz)

\* the root emits numVisibleItemsChanged(n)
NotifyNumVisibleItemsChanged(n) ==
    /\ LiveRoot
    /\ Owns(numVisibleItemsChanged(Own, n), "root.numVisibleItemsChanged", n)

NextNotify ==
    \/ SetRootItem
    \/ ViewAboutToBeDeleted
    \/ LayoutDestructor
    \/ \E sz \in Sizes : NotifyMinSizeChanged(sz)
    \/ \E n \in 0..MaxLeaves : NotifyNumVisibleItemsChanged(n)

\* the notifications of the root item
SpecNotify == Init /\ [][NextNotify]_vars

\* mainWindow(true) and mainWindow(false) of a layout whose host view has
\* the ancestors of chain, on a platform
MainWindow(chain, platform) ==
    /\ chain \in AncestorChains /\ platform \in Platforms
    /\ last' = Call("mainWindow", [chain |-> chain, platform |-> platform],
                    [nesting |-> mainWindow(chain, TRUE, platform),
                     plain |-> mainWindow(chain, FALSE, platform)], <<>>)
    /\ UNCHANGED <<m_rootItem, groupContent, viewSize, m_inResizeEvent, restoreInProgress,
                   lifeVars>>

NextWindow == \E chain \in AncestorChains, platform \in Platforms : MainWindow(chain, platform)

\* the main window of a layout
SpecWindow == Init /\ [][NextWindow]_vars

\* the method ids a caller may pass: those of the switch and others
MethodIds == UNION {{methodId[m], methodId[m] + 1} : m \in Methods}

Registered(slots) == {m \in Methods : slots[m] # NullCallback}

\* what a call into the wrapper leaves behind
Wrapped(slots, op, arg, ret) ==
    /\ heap' = [heap EXCEPT !.callbacks = slots]
    /\ last' = Call(op, arg, ret, <<>>)
    /\ UNCHANGED <<m_rootItem, groupContent, viewSize, m_inResizeEvent, restoreInProgress,
                   m_viewDeleted>>

RegisterVirtualMethodCallback(callback, id) ==
    LET slots == registerVirtualMethodCallback(heap.callbacks, callback, id)
    IN  /\ Cardinality(Registered(slots)) <= MaxRegistered
        /\ Wrapped(slots, "registerVirtualMethodCallback",
                   [callback |-> callback, methodId |-> id], <<>>)

\* the library calls the virtual method of the wrapper
VirtualCall(method, reenters) ==
    /\ method \in Methods
    /\ Wrapped(heap.callbacks, "virtual", [method |-> method, reenters |-> reenters],
               Item_wrapper(heap.callbacks, method, reenters))

\* the binding calls the C entry point of the method on the wrapper
EntryPoint(method) ==
    /\ method \in Methods
    /\ Wrapped(heap.callbacks, "c_KDDockWidgets__Core__Item", [method |-> method],
               c_KDDockWidgets__Core__Item(heap.callbacks, method))

NextWrapper ==
    \/ \E callback \in CallbackPointers, id \in MethodIds :
          RegisterVirtualMethodCallback(callback, id)
    \/ \E method \in Methods, reenters \in BOOLEAN : VirtualCall(method, reenters)
    \/ \E method \in Methods : EntryPoint(method)

\* the binding wrapper of an item
SpecWrapper == Init /\ [][NextWrapper]_vars

\* the items: removal, placeholders and their restoration
NextItems ==
    \/ \E item \in Range(descendants(m_rootItem)) \cup {nullptr} : RemoveItem(item)
    \/ \E item \in Range(items_recursive(m_rootItem)) :
          RestorePlaceholder(RestoredDockWidget, item, -1)
    \/ \E item \in Range(items_recursive(m_rootItem)) : TurnIntoPlaceholder(item)

\* the layouts the items specification starts from: every group has one tab
ItemLayouts ==
    {BuiltLayout(kids, DefaultSize, DefaultSize, <<1, 0>>) : kids \in TreeChildren}

InitItems == InitWith(ItemLayouts)

\* a call went through a null or deleted object: the process is gone
Faulted ==
    \E i \in DOMAIN last.log : last.log[i].ev \in {"null dereference", "use after delete"}

\* removeItem(rootItem())
RemoveRootItem ==
    /\ ~Faulted
    /\ Returns(removeItem(Cur(TRUE, <<>>), m_rootItem), "removeItem", m_rootItem, <<>>)

\* removeItem(item) once more, with the item the last call removed
RemoveItemAgain ==
    /\ ~Faulted /\ last.op = "removeItem"
    /\ IF last.op = "removeItem" THEN last.arg # nullptr ELSE FALSE
    /\ Returns(removeItem(Cur(TRUE, <<>>), last.arg), "removeItem", last.arg, <<>>)

\* removeItem with every item the Layout's interface hands out
NextRemove ==
    \/ \E item \in Range(descendants(m_rootItem)) \cup {nullptr} : ~Faulted /\ RemoveItem(item)
    \/ RemoveRootItem
    \/ RemoveItemAgain

\* the item ids above those of the items of the tree
FreeItemIds(root) == {i \in 1..(MaxLeaves + 2) : \A j \in ItemIds(root) : j < i}

\* ItemContainer::insertItem on the root (design document: a container owns
\* the items inserted into it): a new leaf item hosting a new group of one
\* dock widget becomes the last child of the root
InsertItem ==
    /\ count(m_rootItem) < MaxLeaves /\ FreeItemIds(m_rootItem) # {}
    /\ LET id == CHOOSE i \in FreeItemIds(m_rootItem) :
                    \A j \in FreeItemIds(m_rootItem) : i <= j
           group == NewGroupId(groupContent)
       IN  /\ m_rootItem' = [m_rootItem EXCEPT !.children = Append(@, Leaf(id, group))]
           /\ groupContent' =
                 (group :> [dockWidgets |-> DockWidgetsOf(group, 1), currentTabIndex |-> 0])
                 @@ groupContent
           /\ last' = Call("insertItem", id, <<>>, <<>>)
    /\ UNCHANGED <<viewSize, m_inResizeEvent, restoreInProgress, lifeVars>>

NextCount ==
    \/ InsertItem
    \/ \E item \in Range(descendants(m_rootItem)) : RemoveItem(item)
    \/ \E item \in Range(items_recursive(m_rootItem)) :
          isPlaceholder(item) /\ RestorePlaceholder(RestoredDockWidget, item, -1)
    \/ \E item \in Range(items_recursive(m_rootItem)) : TurnIntoPlaceholder(item)

\* the items counted: insertion, removal, placeholders and their restoration
SpecCount == InitItems /\ [][NextCount]_vars

\* removal of any item
SpecRemove == InitItems /\ [][NextRemove]_vars

SpecItems == InitItems /\ [][NextItems]_vars

\* restorePlaceholder with every tab index, on the groups and placeholders
\* of every layout
NextRestore ==
    \E item \in Range(items_recursive(m_rootItem)), tabIndex \in -1..MaxTabs :
        RestorePlaceholder(RestoredDockWidget, item, tabIndex)

SpecRestore == InitTree /\ [][NextRestore]_vars

\* the tab indexes a caller may pass: -1, other negative values, the
\* positions of a group and values beyond them
TabIndexes == (0 - MaxTabs)..(MaxTabs + 1)

NextRestoreAny ==
    \E item \in Range(items_recursive(m_rootItem)), tabIndex \in TabIndexes :
        RestorePlaceholder(RestoredDockWidget, item, tabIndex)

\* restorePlaceholder with any tab index
SpecRestoreAny == InitTree /\ [][NextRestoreAny]_vars

\* C11 as stated: deserialize of a record whose tree refers to a group id
\* that is not in the record's group map, or describes a container with
\* fewer than the required children, fails (it does not return true) and
\* leaves the tree as it was.
C11_FailsOnMalformedRecord ==
    [][last'.op = "deserializeMalformed" =>
        /\ last'.ret = FALSE
        /\ m_rootItem' = m_rootItem]_vars

Removed == last.op = "removeItem"

\* the trace of a call that only emitted a diagnostic
OnlyDiagnostic(log) == Len(log) = 1 /\ log[1].ev = "qWarning"

\* C12: removeItem(null) is a no-op: it emits only a diagnostic and leaves
\* the tree, its items, count, visibleCount and sizes, and the groups as
\* they were.
C12_RemoveNullIsNoOp ==
    [][last'.op = "removeItem" /\ last'.arg = nullptr =>
        /\ OnlyDiagnostic(last'.log)
        /\ m_rootItem' = m_rootItem
        /\ count(m_rootItem') = count(m_rootItem)
        /\ visibleCount(m_rootItem') = visibleCount(m_rootItem)
        /\ UNCHANGED <<groupContent, viewSize, m_inResizeEvent>>]_vars

\* removeItem(null) was called on a layout of three items
C12_Witness ==
    Removed /\ last.arg = nullptr /\ OnlyDiagnostic(Log) /\ count(m_rootItem) = 3

\* the items of the subtree of item, item included
Subtree(item) == {item.id} \cup ItemIds(item)

\* C13 as stated: removeItem(item) for a non-null item of the tree removes
\* exactly that item: afterwards it is not contained, and every other item
\* that was contained still is.
C13_RemovesExactlyThatItem ==
    [][last'.op = "removeItem" /\ last'.arg # nullptr =>
        ItemIds(m_rootItem') = ItemIds(m_rootItem) \ {last'.arg.id}]_vars

\* C13 amended: removeItem(item) removes that item and, when it is a
\* container, the items of its subtree with it: afterwards none of these is
\* contained, every other item that was contained still is, and no
\* diagnostic is emitted.
C13_RemovesItemAndSubtree ==
    [][last'.op = "removeItem" /\ last'.arg # nullptr =>
        /\ ~containsItem(m_rootItem', last'.arg)
        /\ ItemIds(m_rootItem') = ItemIds(m_rootItem) \ Subtree(last'.arg)
        /\ last'.log = <<>>]_vars

\* a leaf nested in a container was removed, its sibling is still there
C13_Witness ==
    /\ Removed /\ last.arg # nullptr /\ ~last.arg.isContainer
    /\ ~containsItem(m_rootItem, last.arg)
    /\ \E i \in DOMAIN m_rootItem.children :
          /\ m_rootItem.children[i].isContainer
          /\ Len(m_rootItem.children[i].children) = 1
          /\ m_rootItem.children[i].children[1].id + 1 = last.arg.id

Restored == last.op = "restorePlaceholder"

\* the last step of the trace made the group visible
MadeVisible(log, group) ==
    log # <<>> /\ log[Len(log)].ev = "setVisible" /\ log[Len(log)].size = group

\* C14: restorePlaceholder(dw, item, -1) on a placeholder item creates a new
\* empty group and restores the item with it, so that the item is no longer
\* a placeholder, and appends dw: the group has dw as its only tab, dw is
\* the active tab, and the group is visible.
C14_RestoreOnPlaceholder ==
    [][last'.op = "restorePlaceholder" /\ last'.arg.tabIndex = -1
            /\ isPlaceholder(itemAt(m_rootItem, last'.arg.item)) =>
        LET item == itemAt(m_rootItem', last'.arg.item)
            group == asGroupController(item)
        IN  /\ ~isPlaceholder(item)
            /\ group # NoGroup /\ group \notin DOMAIN groupContent
            /\ last'.log[1].ev = "new Group" /\ last'.log[1].size = group
            /\ last'.log[2].ev = "restore" /\ last'.log[2].size = group
            /\ groupContent'[group].dockWidgets = <<last'.arg.dw>>
            /\ groupContent'[group].currentTabIndex = 0
            /\ MadeVisible(last'.log, group)]_vars

\* a placeholder next to two groups was restored with tabIndex -1
C14_Witness ==
    /\ Restored /\ last.arg.tabIndex = -1 /\ isPlaceholder(last.arg.item)
    /\ Len(groups(m_rootItem)) = 3
    /\ groupContent[asGroupController(itemAt(m_rootItem, last.arg.item))].dockWidgets
          = <<RestoredDockWidget>>

\* C15: restorePlaceholder(dw, item, tabIndex) inserts dw at position
\* tabIndex of the item's group when tabIndex is not -1 and at most the
\* group's dock widget count, and appends dw as the last tab otherwise; the
\* other tabs keep their order, the group is visible on return, dw is in it
\* exactly once, and no other group changes.
C15_InsertsAtTabIndex ==
    [][last'.op = "restorePlaceholder" =>
        LET before == itemAt(m_rootItem, last'.arg.item)
            pre == IF isPlaceholder(before) THEN <<>>
                   ELSE groupContent[asGroupController(before)].dockWidgets
            group == asGroupController(itemAt(m_rootItem', last'.arg.item))
            post == groupContent'[group].dockWidgets
            tabIndex == last'.arg.tabIndex
            at == IF tabIndex # -1 /\ tabIndex <= Len(pre) THEN tabIndex + 1 ELSE Len(pre) + 1
        IN  /\ Len(post) = Len(pre) + 1
            /\ post[at] = last'.arg.dw
            /\ \A i \in 1..(at - 1) : post[i] = pre[i]
            /\ \A i \in at..Len(pre) : post[i + 1] = pre[i]
            /\ Cardinality({i \in DOMAIN post : post[i] = last'.arg.dw}) = 1
            /\ MadeVisible(last'.log, group)
            /\ \A g \in DOMAIN groupContent \ {group} : groupContent'[g] = groupContent[g]]_vars

\* dw was inserted as the first tab of a group of two tabs
C15_Witness ==
    /\ Restored /\ last.arg.tabIndex = 0 /\ ~isPlaceholder(last.arg.item)
    /\ LET grp == groupContent[asGroupController(last.arg.item)]
       IN  Len(grp.dockWidgets) = 3 /\ grp.dockWidgets[1] = RestoredDockWidget

\* dw was appended because tabIndex exceeds the group's dock widget count
C15_WitnessBeyondCount ==
    /\ Restored /\ last.arg.tabIndex = 3 /\ ~isPlaceholder(last.arg.item)
    /\ groupContent[asGroupController(last.arg.item)].dockWidgets[2] = RestoredDockWidget

\* the ids of the items of the layouts a run starts from
AllItemIds == UNION {ItemIds(b.root) : b \in ItemLayouts}

\* the state of the item of the given id: Removed once it is detached from
\* the tree, else Placeholder or Normal
ItemState(root, id) ==
    IF id \notin ItemIds(root) THEN "Removed"
    ELSE IF isPlaceholder(itemAt(root, [id |-> id])) THEN "Placeholder"
    ELSE "Normal"

\* the item of the call, or an item above it in the tree
InSubtreeOf(root, item, id) ==
    id = item.id \/ id \in ItemIds(itemAt(root, item))

C17_LeafHostsGuestOrIsPlaceholder ==
    LET leaves == items_recursive(m_rootItem)
    IN  /\ \A i \in DOMAIN leaves :
              /\ isPlaceholder(leaves[i]) <=> asGroupController(leaves[i]) \notin DOMAIN groupContent
              /\ isPlaceholder(leaves[i]) <=> leaves[i].guest = NoGroup
              /\ \A j \in DOMAIN leaves :
                    i # j /\ ~isPlaceholder(leaves[i]) =>
                        asGroupController(leaves[i]) # asGroupController(leaves[j])
        /\ DOMAIN groupContent = Range(groups(m_rootItem))
        /\ Restored =>
              LET item == itemAt(m_rootItem, last.arg.item)
              IN  /\ ~isPlaceholder(item)
                  /\ asGroupController(item) \in DOMAIN groupContent
                  /\ last.arg.dw \in Range(groupContent[asGroupController(item)].dockWidgets)

\* a placeholder was restored while another leaf is a placeholder
C17_Witness ==
    /\ Restored
    /\ IF last.op = "restorePlaceholder" THEN isPlaceholder(last.arg.item) ELSE FALSE
    /\ \E x \in Range(items_recursive(m_rootItem)) : isPlaceholder(x)
    /\ Len(groups(m_rootItem)) = 2

\* the root item is there and was not deleted
RootIsLive == m_rootItem # nullptr /\ heap.deletes[m_rootItem.id] = 0

C19_RootDeletedExactlyOnce ==
    /\ \A r \in Handed(heap) : heap.deletes[r] <= 1
    /\ heap.usedAfterDelete = {}
    /\ \A r \in Handed(heap) :
          (IF m_rootItem = nullptr THEN TRUE ELSE r # m_rootItem.id) => heap.deletes[r] = 1
    /\ heap.layoutDestroyed => \A r \in Handed(heap) : heap.deletes[r] = 1

\* setLayoutSize(S) ran setSize_recursive on the root
SetSizeRecursiveRan ==
    last.op = "setLayoutSize" /\ \E i \in DOMAIN last.log : last.log[i].ev = "tree"

\* the minimum sizes the leaves of the tree may have
LeafMins == [{x.id : x \in Range(items_recursive(m_rootItem))} -> LeafMinSizes]

\* the children of the container item, which was asked to take the size S
\* and has the size size, sum to S less the separators along the axis, none
\* is below its minimum, and so on for the containers among them
RECURSIVE SplitsTo(_, _, _, _, _, _)
SplitsTo(item, S, size, axis, leafMin, th) ==
    LET kids == item.children
        sizes == childSizes(item, size, axis, leafMin, th)
    IN  \/ kids = <<>>
        \/ /\ SumSeq([i \in DOMAIN kids |-> sizes[i][axis]])
                  = S[axis] - Separators(Len(kids), th)
           /\ \A i \in DOMAIN kids :
                 /\ AtLeast(sizes[i], minSize(kids[i], Other(axis), leafMin, th))
                 /\ kids[i].isContainer =>
                       SplitsTo(kids[i], sizes[i], sizes[i], Other(axis), leafMin, th)

C20_WitnessSurplus ==
    /\ SetSizeRecursiveRan /\ AtLeast(last.arg.size, m_rootItem.minSize)
    /\ Len(m_rootItem.children) = 2
    /\ \E leafMin \in LeafMins :
          /\ AtLeast(m_rootItem.minSize, minSize(m_rootItem, 1, leafMin, 0))
          /\ childSizes(m_rootItem, m_rootItem.size, 1, leafMin, 0)[2][1] = 2
          /\ leafMin[m_rootItem.children[2].id][1] = 1

\* the events of the given kind in a trace
Events(log, kind) == {i \in DOMAIN log : log[i].ev = kind}

\* C21: with a host view that synchronously emits its resize notification
\* whenever it is resized, a call of setLayoutSize or onResize ends after at
\* most one host view resize and at most one tree resize after that one,
\* the last call of setLayoutSize in the chain changing nothing but the
\* tree: onResize is entered at most once below the call.
C21_ResizeChainEnds ==
    last.op \in {"setLayoutSize", "onResize"} =>
        LET log == last.log
            views == Events(log, "view")
            trees == Events(log, "tree")
        IN  /\ Cardinality(views) <= 1
            /\ \A v \in views : Cardinality({i \in trees : i > v}) <= 1
            /\ Cardinality(trees) <= 2
            /\ IF last.op = "onResize"
               THEN Cardinality(Events(log, "enter")) = 1 /\ views = {}
               ELSE Cardinality(Events(log, "enter")) = Cardinality(views)
            /\ m_inResizeEvent = FALSE

\* setLayoutSize resized a host view that took another size: the tree was
\* resized again from the notification
C21_Witness ==
    /\ last.op = "setLayoutSize"
    /\ Cardinality(Events(last.log, "view")) = 1
    /\ Cardinality(Events(last.log, "tree")) = 2
    /\ viewSize # last.arg.size /\ m_rootItem.size = viewSize

\* C22 as stated: a min-size change or a visible-count change notified by
\* the current root leaves the host view's minimum size equal to the tree's
\* minimum size, and is not handled once the Layout is destroyed.
C22_NotificationsPropagate ==
    [][last'.op \in {"root.minSizeChanged", "root.numVisibleItemsChanged"} =>
        IF heap.layoutDestroyed
        THEN last'.log = <<>> /\ heap'.viewMinimumSize = heap.viewMinimumSize
        ELSE heap'.viewMinimumSize = m_rootItem'.minSize]_vars

\* C22 for what each notification does: a min-size change notified by the
\* current root leaves the host view's minimum size equal to the tree's
\* minimum size; a visible-count change notified by the current root is
\* passed on as visibleWidgetCountChanged with its count and leaves the host
\* view's minimum size as it is; min-size changes are not handled once the
\* Layout is destroyed.
C22_MinSizeChangesPropagate ==
    [][/\ last'.op = "root.minSizeChanged" =>
             IF heap.layoutDestroyed
             THEN last'.log = <<>> /\ heap'.viewMinimumSize = heap.viewMinimumSize
             ELSE heap'.viewMinimumSize = m_rootItem'.minSize
       /\ last'.op = "root.numVisibleItemsChanged" /\ ~heap.layoutDestroyed =>
             /\ last'.log = <<[signal |-> "visibleWidgetCountChanged", arg |-> last'.arg]>>
             /\ heap'.viewMinimumSize = heap.viewMinimumSize]_vars

\* a root set by setRootItem notified a new minimum size
C22_Witness ==
    /\ last.op = "root.minSizeChanged" /\ ~heap.layoutDestroyed
    /\ m_rootItem.id = RootId(2)
    /\ heap.viewMinimumSize = m_rootItem.minSize /\ m_rootItem.minSize # DefaultSize

\* a root that outlives the Layout notified a new minimum size
C22_WitnessDestroyed ==
    /\ last.op = "root.minSizeChanged" /\ heap.layoutDestroyed
    /\ heap.viewMinimumSize # m_rootItem.minSize

\* C23: on a platform other than QtWidgets mainWindow(true) returns what
\* mainWindow(false) returns, for every ancestor chain of the host view; on
\* QtWidgets mainWindow(true) is the nearest main window among all the
\* ancestors.
C23_NestingOnlyOnQtWidgets ==
    last.op = "mainWindow" =>
        IF last.arg.platform = "QtWidgets"
        THEN LET chain == last.arg.chain
                 windows == {i \in DOMAIN chain : chain[i].type = "MainWindow"}
             IN  IF windows = {} THEN last.ret.nesting = NoWindow
                 ELSE last.ret.nesting \in windows /\ \A i \in windows : last.ret.nesting <= i
        ELSE last.ret.nesting = last.ret.plain

\* on QtQuick a main window two levels above a parent that is neither a
\* main window nor the central widget is not found
C23_Witness ==
    /\ last.op = "mainWindow"
    /\ IF last.op = "mainWindow"
       THEN /\ last.arg.platform = "QtQuick"
            /\ Len(last.arg.chain) = 2
            /\ last.arg.chain[1] = [type |-> "Other", objectName |-> ""]
            /\ last.arg.chain[2].type = "MainWindow"
            /\ last.ret.nesting = NoWindow
       ELSE FALSE

\* on QtWidgets the two calls differ for such a chain
C23_WitnessQtWidgets ==
    /\ last.op = "mainWindow"
    /\ IF last.op = "mainWindow"
       THEN last.arg.platform = "QtWidgets" /\ last.ret.nesting = 2 /\ last.ret.plain = NoWindow
       ELSE FALSE

\* the non-container items of the tree that host a group
HostingItems ==
    {i \in DOMAIN items_recursive(m_rootItem) :
        LET item == items_recursive(m_rootItem)[i]
        IN  ~item.isContainer /\ item.guest # NoGroup}

\* the group map of the record returned holds one entry per hosting item,
\* filed under the id of its group's view, and nothing else
GroupMapOfHostingItems ==
    LET items == items_recursive(m_rootItem)
        map == last.ret.groups
    IN  /\ DOMAIN map = {ViewId(items[i].guest) : i \in HostingItems}
        /\ Cardinality(DOMAIN map) = Cardinality(HostingItems)
        /\ \A i \in HostingItems :
              map[ViewId(items[i].guest)] = GroupSerialize(items[i].guest, groupContent)

\* C24: the group map of the record serialize() returns holds exactly one
\* entry per non-container item that hosts a group, keyed by the id of the
\* group's view, and none for placeholders or containers; serialize() leaves
\* the layout unchanged.
C24_SerializeGroupMap ==
    [][last'.op = "serialize" =>
          /\ GroupMapOfHostingItems'
          /\ UNCHANGED <<m_rootItem, groupContent, viewSize>>]_vars

\* serialized: a tree with a nested container, a placeholder ahead of a
\* group, and two groups
C24_Witness ==
    /\ last.op = "serialize"
    /\ \E i \in DOMAIN m_rootItem.children : m_rootItem.children[i].isContainer
    /\ isPlaceholder(items_recursive(m_rootItem)[1])
    /\ Cardinality(HostingItems) = 2
    /\ IF last.op = "serialize" THEN Cardinality(DOMAIN last.ret.groups) = 2 ELSE FALSE

\* C25: m_inResizeEvent is true exactly while at least one onResize is
\* executing: false before the outermost call, true during it, nested calls
\* included, true again once a nested call has returned inside the outer
\* one, and false after the outermost call has returned.
C25_InResizeEventWhileResizing ==
    /\ m_inResizeEvent = FALSE
    /\ \A i \in DOMAIN last.log : last.log[i].guard = (last.log[i].depth > 0)

\* a nested onResize has returned inside the outer one: the outer call
\* leaves after the inner one, with the flag set
C25_Witness ==
    /\ last.op = "onResize"
    /\ \E i, j \in DOMAIN last.log :
          /\ i < j
          /\ last.log[i].ev = "exit" /\ last.log[i].depth = 2
          /\ last.log[j].ev = "exit" /\ last.log[j].depth = 1 /\ last.log[j].guard

\* C26 as stated: viewAboutToBeDeleted can be called more than once and be
\* followed by the destructors without dereferencing a root item that is
\* null or deleted: in every call where the host view still exists, the root
\* item it inspects is non-null.
C26_InspectsLiveRoot ==
    last.op \in {"viewAboutToBeDeleted", "~DropArea", "~Layout"} =>
        ~heap.crashed /\ heap.usedAfterDelete = {}

\* C27 as stated: removeItem never calls through a null parent container:
\* for every non-null item it can be called with, the root item and an item
\* that was removed from the tree before included, the item's parent
\* container is non-null when the removal is delegated to it.
C27_ParentContainerNonNull ==
    last.op = "removeItem" =>
        \A i \in DOMAIN last.log :
            last.log[i].ev \notin {"null dereference", "use after delete"}

\* C28 as stated: for every tabIndex, negative values other than -1 and
\* values above the group's size included, restorePlaceholder asks the group
\* to insert only at an index in 0..dockWidgetCount(); any other tabIndex
\* results in an append.
C28_InsertIndexInRange ==
    [][last'.op = "restorePlaceholder" =>
        LET before == itemAt(m_rootItem, last'.arg.item)
            dockWidgetCountBefore ==
                IF isPlaceholder(before) THEN 0
                ELSE dockWidgetCount(groupContent[asGroupController(before)])
            inRange == last'.arg.tabIndex \in 0..dockWidgetCountBefore
        IN  /\ Events(last'.log, "insertWidget") # {} => inRange
            /\ ~inRange => Events(last'.log, "addTab") # {}]_vars

C30_WrapperDispatch ==
    [][/\ last'.op = "virtual" =>
            LET method == last'.arg.method
                slot == heap.callbacks[method]
            IN  /\ heap'.callbacks = heap.callbacks
                /\ Head(last'.ret) = Ran(method, slot)
                /\ Len(last'.ret) <= 2
                /\ \A i \in 2..Len(last'.ret) : last'.ret[i] = Ran(method, NullCallback)
       /\ last'.op = "c_KDDockWidgets__Core__Item" =>
            /\ heap'.callbacks = heap.callbacks
            /\ last'.ret = <<Ran(last'.arg.method, NullCallback)>>
       /\ last'.op = "registerVirtualMethodCallback" =>
            \A m \in Methods :
                heap'.callbacks[m] =
                    IF methodId[m] = last'.arg.methodId THEN last'.arg.callback
                    ELSE heap.callbacks[m]]_vars

\* with callbacks registered for minSize and checkSanity, the callback of
\* minSize ran, called the entry point and Item's minSize ran once
C30_Witness ==
    /\ last.op = "virtual"
    /\ heap.callbacks.minSize = "f" /\ heap.callbacks.checkSanity = "g"
    /\ last.ret = <<Ran("minSize", "f"), Ran("minSize", NullCallback)>>

\* a registration with an id of no method left the slots as they were,
\* one of them holding a callback
C30_WitnessUnknownId ==
    /\ last.op = "registerVirtualMethodCallback"
    /\ IF last.op = "registerVirtualMethodCallback"
       THEN \A m \in Methods : methodId[m] # last.arg.methodId
       ELSE FALSE
    /\ Registered(heap.callbacks) = {"isVisible"}

====
